---- MODULE Spec2Model ----
(***************************************************************************)
(* ListingMatcher API (src/main.py): the handler run_listingmatcher, its   *)
(* tool loop against the model API, and the extraction of the "properties" *)
(* array from the final text.                                              *)
(*                                                                         *)
(* Every local of the handler is a function of the request that owns it;   *)
(* the only module-level state is the credential OPENAI_API_KEY.           *)
(***************************************************************************)
EXTENDS Integers, Sequences, FiniteSets, TLC

VARIABLES
    apiKey,        \* OPENAI_API_KEY is set (module global, fixed at start-up)
    pc,            \* position of each request's handler
    flat,          \* FlatCriteria of the request (limit, allow_web)
    tools,         \* the tools= argument given to responses.create
    resp,          \* the handler's local resp
    round,         \* iterations of "for _ in range(4)" completed
    tool_calls,    \* the handler's local tool_calls
    idx,           \* position of "for tc in tool_calls"
    tool_outputs,  \* the handler's local tool_outputs
    status,        \* how the request ended ("pending" while it runs): ok200, an
                   \* HTTPException (err500_config, err400_json, err502_openai,
                   \* err502_submit, err502_no_text) or an exception nothing
                   \* catches, named by where it is raised (err500_validation,
                   \* err500_tool_loop, err500_finalize)
    reply,         \* MatchResponse.reply
    properties,    \* MatchResponse.properties
    invocations,   \* history: model invocations made (create + submit_tool_outputs)
    failures,      \* history: model invocations that raised
    ranTools,      \* history: names of the tools actually executed
    unanswered,    \* history: tool calls received and not yet answered by a submission
    firstEmpty     \* history: the first response carried no tool call item

vars == <<apiKey, pc, flat, tools, resp, round, tool_calls, idx, tool_outputs,
          status, reply, properties, invocations, failures, ranTools,
          unanswered, firstEmpty>>

----------------------------------------------------------------------------
(* Program constants *)

MaxRounds == 4
DefaultLimit == 10
DefaultNum == 5

(* Bounds of the model *)

MaxItems == 2
MaxProps == 2

\* None of Python.  NoId is the id of an item that carries none, which the
\* handler sends back as "" (line 286); the ids the API gives are 1, 2, ...
Null == "null"
NoId == 0

\* The handler instances.  Each request runs run_listingmatcher with locals of
\* its own; Init below lets one request arrive, the other instance stays off.
Reqs == {"r1", "r2"}

Min(a, b) == IF a < b THEN a ELSE b
Max(a, b) == IF a > b THEN a ELSE b

SeqsUpTo(S, n) == UNION {[1..k -> S] : k \in 0..n}

----------------------------------------------------------------------------
(* Text: a sequence of tokens.  "w" is a word of prose, "nl" a newline,    *)
(* "key" the text "properties": with its optional blanks, "[" "]" "," the  *)
(* JSON punctuation, and the e* tokens one JSON array element each.        *)

ElemTokens == {"eA", "eX", "eT", "eS", "eI", "eU"}

\* The elements json.dumps writes for a Listing, all eight keys present.  It
\* writes the "]" of a string as it is: the Listing with mls A] is the three
\* tokens "fL" "]" "fR", of which "fL" and "fR" are no JSON value.
DumpTokens == {"fA", "fN", "f0"}

\* Every token that is one well-formed JSON value.
JsonElems == ElemTokens \cup DumpTokens

\* The JSON value an element token stands for.
\*   eA  {"mls":"A","price_cad":450000}
\*   eX  {"price_cad":450000,"source":"x"}      (an unrecognized key)
\*   eT  {"mls":"A","price_cad":"abc"}          (price_cad is no integer)
\*   eS  "foo"                                   (a JSON string)
\*   eI  7                                       (a JSON number)
\*   eU  {"mls":"A\u005d","price_cad":450000}   (the string A] with "]" escaped)
\*   fA  {"mls": "A", "url": null, ..., "price_cad": 450000, ..., "note": null}
\*   fN  {"mls": null, "url": null, ..., "price_cad": 450000, ..., "note": null}
\*   f0  {"mls": null, "url": null, ..., "price_cad": null, ..., "note": null}
ElemValue(tok) ==
    CASE tok \in {"eA", "fA"} ->
             [kind |-> "obj", mls |-> "A",  price_cad |-> "450000", extra |-> FALSE]
      [] tok = "eX" -> [kind |-> "obj", mls |-> Null, price_cad |-> "450000", extra |-> TRUE]
      [] tok = "fN" -> [kind |-> "obj", mls |-> Null, price_cad |-> "450000", extra |-> FALSE]
      [] tok = "eT" -> [kind |-> "obj", mls |-> "A",  price_cad |-> "abc",    extra |-> FALSE]
      [] tok = "eS" -> [kind |-> "str", mls |-> Null, price_cad |-> Null,     extra |-> FALSE]
      [] tok = "eU" -> [kind |-> "obj", mls |-> "A]", price_cad |-> "450000", extra |-> FALSE]
      [] tok = "f0" -> [kind |-> "obj", mls |-> Null, price_cad |-> Null,     extra |-> FALSE]
      [] OTHER      -> [kind |-> "num", mls |-> Null, price_cad |-> Null,     extra |-> FALSE]

WithCommas(es) ==
    [k \in 1..(IF Len(es) = 0 THEN 0 ELSE 2 * Len(es) - 1) |->
        IF k % 2 = 1 THEN es[(k + 1) \div 2] ELSE ","]

ArrayText(es) == <<"w", "key", "[">> \o WithCommas(es) \o <<"]">>

\* Texts without a usable array: empty, prose only, an array that is never
\* closed, an array with a trailing comma, an array whose element has a "]"
\* inside a string.
PlainTexts ==
    { <<>>, <<"w">>, <<"w", "key", "[", "eA">>, <<"key", "[", "eA", ",", "]">>,
      <<"w", "key", "[", "fL", "]", "fR", "]">> }

ArrayTexts(n) == {ArrayText(es) : es \in SeqsUpTo(ElemTokens, n)}

----------------------------------------------------------------------------
(* Model responses *)

CallTypes == {"tool_call", "function_call"}

\* arguments of a call item, as the API may send them:
\*   Null        no arguments
\*   "s:dict"    the string {"query":"q","num":3,"url":"u"}
\*   "s:bad"     a string that is no JSON
\*   "s:list"    the string [1]
\*   "n:badnum"  the mapping {"query":"q","num":"abc","url":"u"}
StrArgs == {"s:dict", "s:bad", "s:list"}
ArgVals == {Null, "n:badnum"} \cup StrArgs

MessageItem ==
    [type |-> "message", id |-> NoId, name |-> Null, arguments |-> Null, text |-> <<"w">>]

CallItem(n, a) ==
    [type |-> "function_call", id |-> NoId, name |-> n, arguments |-> a, text |-> <<>>]

\* Every arguments value for web_search, which reads two of its keys; for
\* http_get and for a name that is no tool, one value that parses to a mapping
\* or to nothing and one that parses to a list.
CallItems ==
    {CallItem("web_search", a) : a \in ArgVals}
    \cup {CallItem("http_get", a) : a \in {"s:dict", "s:list"}}
    \cup {CallItem("unknown_tool", a) : a \in {Null, "s:list"}}

\* The API numbers the items of one response: item k has id k.
WithIds(items) == [k \in DOMAIN items |-> [items[k] EXCEPT !.id = k]]

Outputs(S, n) == {WithIds(s) : s \in SeqsUpTo(S, n)}


Responses(S, n, T) ==
    {[output |-> o, output_text |-> t] : o \in Outputs(S, n), t \in T}

NoResp == [id |-> [req |-> Null, seq |-> 0], output |-> <<>>, output_text |-> <<>>]

\* The response object the API returns for invocation number n of request r.
\* The API's identifiers are unique: the response is named by the request and
\* the invocation, each of its items by the response and its position.
Delivered(r, n, ans) ==
    [id |-> [req |-> r, seq |-> n],
     output |-> [k \in DOMAIN ans.output |->
                    [ans.output[k] EXCEPT
                        !.id = [req |-> r, seq |-> n, item |-> ans.output[k].id]]],
     output_text |-> ans.output_text]

----------------------------------------------------------------------------
(* extract_tool_calls and extract_text *)

IsCallItem(item) == item.type \in CallTypes

NumCallItems(output) == Cardinality({k \in DOMAIN output : IsCallItem(output[k])})

\* A normalization that gives every call the identifier of the first item.
NormalizeCallFirstId(item) ==
    [id |-> [item.id EXCEPT !.item = 1], name |-> item.name, arguments |-> item.arguments]

\* lines 175-179
NormalizeCall(item) == [id |-> item.id, name |-> item.name, arguments |-> item.arguments]

RECURSIVE CallsFrom(_, _)
CallsFrom(output, k) ==
    IF k > Len(output) THEN <<>>
    ELSE (IF IsCallItem(output[k]) THEN <<NormalizeCall(output[k])>> ELSE <<>>)
         \o CallsFrom(output, k + 1)

ExtractAllItems(r0) == [k \in DOMAIN r0.output |-> NormalizeCall(r0.output[k])]

ExtractToolCalls(r0) == CallsFrom(r0.output, 1)

IsBlank(tok) == tok = "nl"

RECURSIVE StripLeft(_)
StripLeft(t) == IF t # <<>> /\ IsBlank(Head(t)) THEN StripLeft(Tail(t)) ELSE t

RECURSIVE StripRight(_)
StripRight(t) ==
    IF t # <<>> /\ IsBlank(t[Len(t)]) THEN StripRight(SubSeq(t, 1, Len(t) - 1)) ELSE t

Strip(t) == StripRight(StripLeft(t))

\* txt of extract_text: the text of every message item, in output order.
RECURSIVE MessageTexts(_, _)
MessageTexts(output, k) ==
    IF k > Len(output) THEN <<>>
    ELSE (IF output[k].type = "message" /\ output[k].text # <<>>
          THEN <<output[k].text>> ELSE <<>>)
         \o MessageTexts(output, k + 1)

RECURSIVE JoinLines(_)
JoinLines(parts) ==
    IF parts = <<>> THEN <<>>
    ELSE IF Len(parts) = 1 THEN parts[1]
    ELSE parts[1] \o <<"nl">> \o JoinLines(Tail(parts))

ExtractText(r0) ==
    IF r0.output_text # <<>> THEN r0.output_text
    ELSE Strip(JoinLines(MessageTexts(r0.output, 1)))

----------------------------------------------------------------------------
(* The arguments of a tool call *)

EmptyMap == [kind |-> "map",  query |-> Null, num |-> Null,  url |-> Null]
GoodMap  == [kind |-> "map",  query |-> "q",  num |-> "3",   url |-> "u"]
BadNumMap == [kind |-> "map", query |-> "q",  num |-> "abc", url |-> "u"]
ListVal  == [kind |-> "list", query |-> Null, num |-> Null,  url |-> Null]

\* json.loads of an arguments string: ok is FALSE when it raises.
JsonLoadsArgs(a) ==
    CASE a = "s:dict" -> [ok |-> TRUE,  val |-> GoodMap]
      [] a = "s:list" -> [ok |-> TRUE,  val |-> ListVal]
      [] OTHER        -> [ok |-> FALSE, val |-> EmptyMap]

\* args after lines 287-290.
ParseArgs(a) ==
    IF a = Null THEN EmptyMap
    ELSE IF a \in StrArgs
         THEN (IF JsonLoadsArgs(a).ok THEN JsonLoadsArgs(a).val ELSE EmptyMap)
         ELSE BadNumMap

IntLike(s) == s \in {"3"}
IntOf(s) == 3

\* int(args.get("num", 5) or 5): raised when int() raises.
NumArg(args) ==
    IF args.num = Null THEN [raised |-> FALSE, val |-> DefaultNum]
    ELSE IF IntLike(args.num) THEN [raised |-> FALSE, val |-> IntOf(args.num)]
    ELSE [raised |-> TRUE, val |-> 0]

StrArg(v) == IF v = Null THEN "" ELSE v

SearchOutcomes == {"fallback", "serper", "serper_error"}
FetchOutcomes == {"fetched", "fetch_error"}

ToolOutput(tc_id, tool, st, arg, num) ==
    [tool_call_id |-> tc_id, tool |-> tool, status |-> st, arg |-> arg, num |-> num]

UnknownToolSkipped(tc_id, name) == <<>>

\* line 299: the output appended for a name that is no tool.
UnknownToolOutput(tc_id, name) == <<ToolOutput(tc_id, name, "unknown tool", "", 0)>>

\* A dispatch that has no branch for a name that is no tool.
DispatchUnknownRaises(tc, env) ==
    LET args == ParseArgs(tc.arguments)
        none == [raised |-> TRUE, outputs |-> <<>>, ran |-> {}]
    IN  IF tc.name = "web_search" THEN
            IF args.kind # "map" \/ NumArg(args).raised THEN none
            ELSE [raised |-> FALSE,
                  outputs |-> <<ToolOutput(tc.id, "web_search", env,
                                           StrArg(args.query), NumArg(args).val)>>,
                  ran |-> {"web_search"}]
        ELSE IF tc.name = "http_get" THEN
            IF args.kind # "map" THEN none
            ELSE [raised |-> FALSE,
                  outputs |-> <<ToolOutput(tc.id, "http_get", env, StrArg(args.url), 0)>>,
                  ran |-> {"http_get"}]
        ELSE none

\* One iteration of "for tc in tool_calls" (lines 285-299) with the tool's own
\* outcome env: raised when the iteration raises, else the outputs it appends
\* and the tool it ran.
Dispatch(tc, env) ==
    LET args == ParseArgs(tc.arguments)
        none == [raised |-> TRUE, outputs |-> <<>>, ran |-> {}]
    IN  IF tc.name = "web_search" THEN
            IF args.kind # "map" \/ NumArg(args).raised THEN none
            ELSE [raised |-> FALSE,
                  outputs |-> <<ToolOutput(tc.id, "web_search", env,
                                           StrArg(args.query), NumArg(args).val)>>,
                  ran |-> {"web_search"}]
        ELSE IF tc.name = "http_get" THEN
            IF args.kind # "map" THEN none
            ELSE [raised |-> FALSE,
                  outputs |-> <<ToolOutput(tc.id, "http_get", env, StrArg(args.url), 0)>>,
                  ran |-> {"http_get"}]
        ELSE [raised |-> FALSE, outputs |-> UnknownToolOutput(tc.id, tc.name), ran |-> {}]

\* The outcomes the tool named by tc can have: tool_web_search answers from the
\* provider, with the provider's error or with the fallback note; tool_http_get
\* fetches or reports the error, and cannot fetch the empty URL.
EnvFor(tc) ==
    IF tc.name = "web_search" THEN SearchOutcomes
    ELSE IF tc.name = "http_get"
         THEN (IF ParseArgs(tc.arguments).kind = "map" /\ ParseArgs(tc.arguments).url = Null
               THEN {"fetch_error"} ELSE FetchOutcomes)
         ELSE {"none"}

\* The outcomes that come after a suspension of the handler: tool_web_search
\* awaits the provider's answer when SERPER_API_KEY is set (lines 114-117) and
\* returns the fallback note without awaiting when it is not (line 129);
\* tool_http_get always awaits the fetch (lines 133-134); line 299 awaits
\* nothing.
AwaitedOutcomes(tc) ==
    IF tc.name = "web_search" THEN SearchOutcomes \ {"fallback"}
    ELSE IF tc.name = "http_get" THEN EnvFor(tc)
    ELSE {}

----------------------------------------------------------------------------
(* Finalize: the "properties" array and the listings *)

\* Where re.search (line 317) matches: the first key that is followed by "["
\* and, later, by a "]".  0 when nothing matches.
MatchStarts(text) ==
    {i \in 1..Len(text) :
        /\ text[i] = "key"
        /\ i + 1 <= Len(text)
        /\ text[i + 1] = "["
        /\ \E j \in (i + 2)..Len(text) : text[j] = "]"}

MatchStart(text) ==
    IF MatchStarts(text) = {} THEN 0
    ELSE CHOOSE i \in MatchStarts(text) : \A k \in MatchStarts(text) : i <= k

\* The non-greedy [\s\S]*? ends the group at the first "]".
FirstClose(text, i) ==
    CHOOSE j \in (i + 2)..Len(text) :
        text[j] = "]" /\ \A k \in (i + 2)..(j - 1) : text[k] # "]"

\* m.group(1), "[" and "]" included; <<>> when there is no match.
MatchGroup(text) ==
    LET i == MatchStart(text)
    IN  IF i = 0 THEN <<>> ELSE SubSeq(text, i + 1, FirstClose(text, i))

\* json.loads of the group: the elements between the brackets, separated by
\* commas.  ok is FALSE when it raises.
JsonLoadsArray(group) ==
    LET inner == SubSeq(group, 2, Len(group) - 1)
        wellFormed ==
            \/ inner = <<>>
            \/ /\ Len(inner) % 2 = 1
               /\ \A k \in 1..Len(inner) :
                    IF k % 2 = 1 THEN inner[k] \in JsonElems ELSE inner[k] = ","
    IN  IF wellFormed
        THEN [ok |-> TRUE,
              val |-> [k \in 1..((Len(inner) + 1) \div 2) |-> inner[2 * k - 1]]]
        ELSE [ok |-> FALSE, val |-> <<>>]

\* An extraction that keeps what it can read of an array that does not parse.
ExtractPropsLenient(text) ==
    LET g == MatchGroup(text)
    IN  SelectSeq(g, LAMBDA tok : tok \in JsonElems)

\* props after lines 315-321.
ExtractProps(text) ==
    IF MatchGroup(text) = <<>> THEN <<>>
    ELSE IF JsonLoadsArray(MatchGroup(text)).ok THEN JsonLoadsArray(MatchGroup(text)).val
    ELSE <<>>

\* props[:n] of Python.
PySlice(s, n) ==
    IF n >= 0 THEN SubSeq(s, 1, Min(n, Len(s)))
    ELSE SubSeq(s, 1, Max(0, Len(s) + n))

\* A constructor that loses the mls of the element.
ListingCtorDropsMls(v) ==
    IF v.price_cad = Null \/ v.price_cad \in {"450000"}
    THEN [ok |-> TRUE,  val |-> [mls |-> Null, price_cad |-> v.price_cad]]
    ELSE [ok |-> FALSE, val |-> [mls |-> Null, price_cad |-> Null]]

\* Listing(**fields): pydantic accepts price_cad when it is an integer or absent.
ListingCtor(v) ==
    IF v.price_cad = Null \/ v.price_cad \in {"450000"}
    THEN [ok |-> TRUE,  val |-> [mls |-> v.mls, price_cad |-> v.price_cad]]
    ELSE [ok |-> FALSE, val |-> [mls |-> Null, price_cad |-> Null]]

EmptyListing == [mls |-> Null, price_cad |-> Null]

\* Listing(**p), line 326: ** needs a mapping; unrecognized keys are ignored.
FullShape(v) ==
    IF v.kind = "obj" THEN ListingCtor(v) ELSE [ok |-> FALSE, val |-> EmptyListing]

\* The except branch, line 328: "k in p" raises on a number, finds no key in a
\* string, and on a mapping hands the same values to Listing again.
Projection(v) ==
    IF v.kind = "obj" THEN ListingCtor(v)
    ELSE IF v.kind = "str" THEN [ok |-> TRUE, val |-> EmptyListing]
    ELSE [ok |-> FALSE, val |-> EmptyListing]

\* One iteration of "for p in props[:limit]": the listing appended, or raised.
ListingOf(tok) ==
    LET v == ElemValue(tok)
    IN  IF FullShape(v).ok THEN [raised |-> FALSE, val |-> FullShape(v).val]
        ELSE IF Projection(v).ok THEN [raised |-> FALSE, val |-> Projection(v).val]
        ELSE [raised |-> TRUE, val |-> EmptyListing]

\* Lines 323-328: raised when an iteration raises, else out.
BuildListings(props, limit) ==
    LET sel == PySlice(props, limit)
    IN  [raised |-> \E k \in DOMAIN sel : ListingOf(sel[k]).raised,
         out |-> [k \in DOMAIN sel |-> ListingOf(sel[k]).val]]

\* The extraction, from the text to the listings (lines 315-328).
ExtractListings(text, limit) == BuildListings(ExtractProps(text), limit)

\* One Listing of the response as JSON text (response_model=MatchResponse):
\* every field is written, None as null, a string with its characters as
\* they are.
DumpListing(l) ==
    CASE l = [mls |-> "A",  price_cad |-> "450000"] -> <<"fA">>
      [] l = [mls |-> Null, price_cad |-> "450000"] -> <<"fN">>
      [] l = [mls |-> "A]", price_cad |-> "450000"] -> <<"fL", "]", "fR">>
      [] l = EmptyListing                           -> <<"f0">>

RECURSIVE DumpElems(_)
DumpElems(ls) ==
    IF ls = <<>> THEN <<>>
    ELSE DumpListing(Head(ls))
         \o (IF Len(ls) > 1 THEN <<",">> ELSE <<>>)
         \o DumpElems(Tail(ls))

\* "properties": [...] as the response body carries it.
DumpsProperties(ls) == <<"key", "[">> \o DumpElems(ls) \o <<"]">>

Dash == <<"dash">>

\* Lines 314-333 on the response r0 with flat.limit = limit.
FinalizeResult(r0, limit) ==
    LET text == ExtractText(r0)
        built == BuildListings(ExtractProps(text), limit)
    IN  IF built.raised
        THEN [status |-> "err500_finalize", reply |-> <<>>, properties |-> <<>>]
        ELSE IF text = <<>> /\ built.out = <<>>
        THEN [status |-> "err502_no_text", reply |-> <<>>, properties |-> <<>>]
        ELSE [status |-> "ok200",
              reply |-> (IF text # <<>> THEN text ELSE Dash),
              properties |-> built.out]

----------------------------------------------------------------------------
(* The request *)

\* request.json() of a body that is no JSON raises.
UnparseableBody ==
    [parseable |-> FALSE, nested |-> FALSE, hasLocation |-> FALSE,
     hasLimit |-> FALSE, limit |-> 0, allow_web |-> FALSE]

\* The bodies that parse: flat or nested, with or without location, without
\* limit or with one of limits.
BodiesWith(limits) ==
    {UnparseableBody}
    \cup [parseable : {TRUE}, nested : BOOLEAN, hasLocation : BOOLEAN,
          hasLimit : {FALSE}, limit : {0}, allow_web : BOOLEAN]
    \cup [parseable : {TRUE}, nested : BOOLEAN, hasLocation : BOOLEAN,
          hasLimit : {TRUE}, limit : limits, allow_web : BOOLEAN]

\* normalize_to_flat raises (pydantic) on a flat payload without location; the
\* nested shape defaults location to "".
BodyValid(b) == b.nested \/ b.hasLocation

NormalizeToFlat(b) ==
    [limit |-> IF b.hasLimit THEN b.limit ELSE DefaultLimit, allow_web |-> b.allow_web]

NoFlat == [limit |-> DefaultLimit, allow_web |-> FALSE]

\* tools=tool_defs or None (lines 236-272).
ToolsArg(allow_web) ==
    IF allow_web THEN [none |-> FALSE, defs |-> {"web_search", "http_get"}]
    ELSE [none |-> TRUE, defs |-> {}]

BudgetLeftOneMore(rnd) == rnd <= MaxRounds

\* for _ in range(4)
BudgetLeft(rnd) == rnd < MaxRounds

NeedToolsSeveral(calls) == Len(calls) > 1

\* if not tool_calls: break
NeedTools(calls) == calls # <<>>

Upd(f, r, v) == [f EXCEPT ![r] = v]

InitWith(active) ==
    /\ apiKey \in BOOLEAN
    /\ pc = [r \in Reqs |-> IF r \in active THEN "recv" ELSE "off"]
    /\ flat = [r \in Reqs |-> NoFlat]
    /\ tools = [r \in Reqs |-> ToolsArg(FALSE)]
    /\ resp = [r \in Reqs |-> NoResp]
    /\ round = [r \in Reqs |-> 0]
    /\ tool_calls = [r \in Reqs |-> <<>>]
    /\ idx = [r \in Reqs |-> 0]
    /\ tool_outputs = [r \in Reqs |-> <<>>]
    /\ status = [r \in Reqs |-> "pending"]
    /\ reply = [r \in Reqs |-> <<>>]
    /\ properties = [r \in Reqs |-> <<>>]
    /\ invocations = [r \in Reqs |-> 0]
    /\ failures = [r \in Reqs |-> 0]
    /\ ranTools = [r \in Reqs |-> {}]
    /\ unanswered = [r \in Reqs |-> 0]
    /\ firstEmpty = [r \in Reqs |-> FALSE]

Init == InitWith({"r1"})

\* A handler that does not look at the credential.
CheckCredentialSkipped(r) ==
    /\ pc[r] = "recv"
    /\ pc' = Upd(pc, r, "body")
    /\ UNCHANGED <<apiKey, flat, tools, resp, round, tool_calls, idx, tool_outputs,
                   status, reply, properties, invocations, failures, ranTools,
                   unanswered, firstEmpty>>

\* Lines 189-193: the credential check, then the handler awaits
\* request.json() and the event loop is free to run another handler.
CheckCredential(r) ==
    /\ pc[r] = "recv"
    /\ IF ~apiKey
       THEN /\ status' = Upd(status, r, "err500_config")
            /\ pc' = Upd(pc, r, "done")
       ELSE /\ pc' = Upd(pc, r, "body")
            /\ UNCHANGED status
    /\ UNCHANGED <<apiKey, flat, tools, resp, round, tool_calls, idx, tool_outputs,
                   reply, properties, invocations, failures, ranTools, unanswered,
                   firstEmpty>>

\* Lines 193-197 and 236-262: request.json() returns or raises, then
\* normalize_to_flat and tool_defs.
Receive(r, Bs) ==
    /\ pc[r] = "body"
    /\ \E b \in Bs :
        LET st == IF ~b.parseable THEN "err400_json"
                  ELSE IF ~BodyValid(b) THEN "err500_validation"
                  ELSE "pending"
        IN  /\ status' = Upd(status, r, st)
            /\ pc' = Upd(pc, r, IF st = "pending" THEN "create" ELSE "done")
            /\ flat' = Upd(flat, r, IF st = "pending" THEN NormalizeToFlat(b) ELSE NoFlat)
            /\ tools' = Upd(tools, r, IF st = "pending" THEN ToolsArg(b.allow_web)
                                      ELSE ToolsArg(FALSE))
    /\ UNCHANGED <<apiKey, resp, round, tool_calls, idx, tool_outputs, reply, properties,
                   invocations, failures, ranTools, unanswered, firstEmpty>>

\* Lines 265-273: responses.create is called.  The call blocks the handler
\* until the API answers.
Create(r) ==
    /\ pc[r] = "create"
    /\ invocations' = Upd(invocations, r, invocations[r] + 1)
    /\ pc' = Upd(pc, r, "wait_create")
    /\ UNCHANGED <<apiKey, flat, tools, resp, round, tool_calls, idx, tool_outputs,
                   status, reply, properties, failures, ranTools, unanswered,
                   firstEmpty>>

\* round after the call that was waiting at p returned: a returned
\* submit_tool_outputs ends one iteration of the for loop.
RoundAfter(p, rnd) == IF p = "wait_submit" THEN rnd + 1 ELSE rnd

\* The call returns (lines 266, 302): resp is bound to the new response.
ModelReturns(r, Rs) ==
    /\ pc[r] \in {"wait_create", "wait_submit"}
    /\ \E ans \in Rs :
        /\ resp' = Upd(resp, r, Delivered(r, invocations[r], ans))
        /\ unanswered' = Upd(unanswered, r, unanswered[r] + NumCallItems(ans.output))
        /\ firstEmpty' = Upd(firstEmpty, r,
               IF pc[r] = "wait_create" THEN NumCallItems(ans.output) = 0
               ELSE firstEmpty[r])
    /\ round' = Upd(round, r, RoundAfter(pc[r], round[r]))
    /\ pc' = Upd(pc, r, "loop")
    /\ UNCHANGED <<apiKey, flat, tools, tool_calls, idx, tool_outputs, status, reply,
                   properties, invocations, failures, ranTools>>

ModelRetried(r) ==
    /\ pc[r] \in {"wait_create", "wait_submit"}
    /\ invocations[r] <= MaxRounds
    /\ invocations' = Upd(invocations, r, invocations[r] + 1)
    /\ failures' = Upd(failures, r, failures[r] + 1)
    /\ UNCHANGED <<apiKey, pc, flat, tools, resp, round, tool_calls, idx, tool_outputs,
                   status, reply, properties, ranTools, unanswered, firstEmpty>>

\* The call raises (lines 274-275, 306-307): HTTP 502, the request is over.
ModelRaises(r) ==
    /\ pc[r] \in {"wait_create", "wait_submit"}
    /\ failures' = Upd(failures, r, failures[r] + 1)
    /\ status' = Upd(status, r, IF pc[r] = "wait_create" THEN "err502_openai"
                                ELSE "err502_submit")
    /\ pc' = Upd(pc, r, "done")
    /\ UNCHANGED <<apiKey, flat, tools, resp, round, tool_calls, idx, tool_outputs,
                   reply, properties, invocations, ranTools, unanswered, firstEmpty>>

\* Lines 278-283: the head of one round.  When the budget is used up the for
\* loop ends and binds nothing; otherwise line 279 rebinds tool_calls, and
\* line 283 tool_outputs when there are calls.
LoopHead(r) ==
    /\ pc[r] = "loop"
    /\ IF BudgetLeft(round[r])
       THEN /\ tool_calls' = Upd(tool_calls, r, ExtractToolCalls(resp[r]))
            /\ IF NeedTools(ExtractToolCalls(resp[r]))
               THEN /\ tool_outputs' = Upd(tool_outputs, r, <<>>)
                    /\ idx' = Upd(idx, r, 1)
                    /\ pc' = Upd(pc, r, "exec")
               ELSE /\ pc' = Upd(pc, r, "finalize")
                    /\ UNCHANGED <<tool_outputs, idx>>
       ELSE /\ pc' = Upd(pc, r, "finalize")
            /\ UNCHANGED <<tool_calls, tool_outputs, idx>>
    /\ UNCHANGED <<apiKey, flat, tools, resp, round, status, reply, properties,
                   invocations, failures, ranTools, unanswered, firstEmpty>>

\* The handler after the iteration at position i of "for tc in tool_calls".
AfterCall(r, i) == IF i + 1 > Len(tool_calls[r]) THEN "submit" ELSE "exec"

\* A handler that keeps tool_outputs in one list of the module.
ToolReturnsSharedOutputs(r) ==
    /\ pc[r] = "tool_wait"
    /\ \E env \in AwaitedOutcomes(tool_calls[r][idx[r]]) :
        /\ tool_outputs' = [q \in Reqs |->
               tool_outputs[r] \o Dispatch(tool_calls[r][idx[r]], env).outputs]
        /\ idx' = Upd(idx, r, idx[r] + 1)
        /\ pc' = Upd(pc, r, AfterCall(r, idx[r]))
    /\ UNCHANGED <<apiKey, flat, tools, resp, round, tool_calls, status, reply,
                   properties, invocations, failures, ranTools, unanswered, firstEmpty>>

\* Lines 285-299, one iteration up to its await: the arguments are parsed and
\* read (which may raise), then either the tool answers without suspending or
\* the name is no tool, and the output is appended at once, or the handler
\* awaits the tool with its request under way.
ExecToolCall(r) ==
    /\ pc[r] = "exec"
    /\ idx[r] <= Len(tool_calls[r])
    /\ LET tc == tool_calls[r][idx[r]]
       IN  \/ /\ \E env \in EnvFor(tc) : Dispatch(tc, env).raised
              /\ status' = Upd(status, r, "err500_tool_loop")
              /\ pc' = Upd(pc, r, "done")
              /\ UNCHANGED <<tool_outputs, idx, ranTools>>
           \/ /\ \E env \in EnvFor(tc) \ AwaitedOutcomes(tc) :
                    /\ ~Dispatch(tc, env).raised
                    /\ tool_outputs' = Upd(tool_outputs, r,
                                           tool_outputs[r] \o Dispatch(tc, env).outputs)
                    /\ ranTools' = Upd(ranTools, r, ranTools[r] \cup Dispatch(tc, env).ran)
              /\ idx' = Upd(idx, r, idx[r] + 1)
              /\ pc' = Upd(pc, r, AfterCall(r, idx[r]))
              /\ UNCHANGED status
           \/ /\ \E env \in AwaitedOutcomes(tc) :
                    /\ ~Dispatch(tc, env).raised
                    /\ ranTools' = Upd(ranTools, r, ranTools[r] \cup Dispatch(tc, env).ran)
              /\ pc' = Upd(pc, r, "tool_wait")
              /\ UNCHANGED <<tool_outputs, idx, status>>
    /\ UNCHANGED <<apiKey, flat, tools, resp, round, tool_calls, reply, properties,
                   invocations, failures, unanswered, firstEmpty>>

\* Lines 293-297: the awaited tool answers and the handler resumes: the
\* output is appended and the for loop moves on.
ToolReturns(r) ==
    /\ pc[r] = "tool_wait"
    /\ \E env \in AwaitedOutcomes(tool_calls[r][idx[r]]) :
        /\ tool_outputs' = Upd(tool_outputs, r,
               tool_outputs[r] \o Dispatch(tool_calls[r][idx[r]], env).outputs)
        /\ idx' = Upd(idx, r, idx[r] + 1)
        /\ pc' = Upd(pc, r, AfterCall(r, idx[r]))
    /\ UNCHANGED <<apiKey, flat, tools, resp, round, tool_calls, status, reply,
                   properties, invocations, failures, ranTools, unanswered, firstEmpty>>

\* What submit_tool_outputs is called with (lines 302-305).
Submission(r) == [response_id |-> resp[r].id, tool_outputs |-> tool_outputs[r]]

\* Lines 301-305: responses.submit_tool_outputs is called with Submission(r).
\* The call binds nothing: resp, tool_calls and tool_outputs stay as they are
\* until the call returns (resp) and the next round rebinds them.
SubmitToolOutputs(r) ==
    /\ pc[r] = "submit"
    /\ invocations' = Upd(invocations, r, invocations[r] + 1)
    /\ unanswered' = Upd(unanswered, r, unanswered[r] - Len(Submission(r).tool_outputs))
    /\ pc' = Upd(pc, r, "wait_submit")
    /\ UNCHANGED <<apiKey, flat, tools, resp, round, tool_calls, idx, tool_outputs,
                   status, reply, properties, failures, ranTools, firstEmpty>>

\* Lines 313-333.
Finalize(r) ==
    /\ pc[r] = "finalize"
    /\ LET res == FinalizeResult(resp[r], flat[r].limit)
       IN  /\ status' = Upd(status, r, res.status)
           /\ reply' = Upd(reply, r, res.reply)
           /\ properties' = Upd(properties, r, res.properties)
    /\ pc' = Upd(pc, r, "done")
    /\ UNCHANGED <<apiKey, flat, tools, resp, round, tool_calls, idx, tool_outputs,
                   invocations, failures, ranTools, unanswered, firstEmpty>>

NextWith(Bs, Rs) ==
    \E r \in Reqs :
        \/ CheckCredential(r)
        \/ Receive(r, Bs)
        \/ Create(r)
        \/ ModelReturns(r, Rs)
        \/ ModelRaises(r)
        \/ LoopHead(r)
        \/ ExecToolCall(r)
        \/ ToolReturns(r)
        \/ SubmitToolOutputs(r)
        \/ Finalize(r)

----------------------------------------------------------------------------
(* Input profiles of the same program.  Spec draws the model responses      *)
(* from every output of up to MaxItems items (a message, a tool call, a     *)
(* call of no tool) with a few texts; SpecArgs draws them from the outputs  *)
(* of one item with every value of the arguments; SpecExtract draws the     *)
(* final texts from every array of up to MaxProps elements and the limit    *)
(* from the integers around the array lengths.                              *)

LoopTexts == {<<>>, <<"w">>}
LoopBodies == BodiesWith({})
LoopItems ==
    {MessageItem, CallItem("web_search", "s:dict"), CallItem("unknown_tool", Null)}
LoopResponses == Responses(LoopItems, MaxItems, LoopTexts)

Next == NextWith(LoopBodies, LoopResponses)
Spec == Init /\ [][Next]_vars

ArgsResponses == Responses(CallItems \cup {MessageItem}, 1, LoopTexts)

NextArgs == NextWith(LoopBodies, ArgsResponses)
SpecArgs == Init /\ [][NextArgs]_vars

\* A response with a tool call carries no text, or an array of one element;
\* a response without one carries any of the texts.
ExtractLimits == (0 - 1)..MaxProps
ExtractItems == {CallItem("web_search", "s:dict")}
ExtractCallTexts == {<<>>, ArrayText(<<"eA">>), ArrayText(<<"eT">>)}
ExtractBodies == BodiesWith(ExtractLimits)
ExtractResponses ==
    Responses({MessageItem}, 1, PlainTexts \cup ArrayTexts(MaxProps))
    \cup Responses(ExtractItems, 1, ExtractCallTexts)

NextExtract == NextWith(ExtractBodies, ExtractResponses)
SpecExtract == Init /\ [][NextExtract]_vars

----------------------------------------------------------------------------
(* Two requests at once.  Each runs the handler as a task of its own; the   *)
(* steps of the two interleave in every order, which covers the orders the  *)
(* event loop allows (a switch at an await only).                           *)

PairBodies ==
    {b \in BodiesWith({}) : b.parseable /\ ~b.nested /\ b.hasLocation /\ b.allow_web}
PairItems == {CallItem("web_search", "s:dict"), CallItem("unknown_tool", Null)}
PairResponses == Responses(PairItems, 1, {<<"w">>})

InitPair == InitWith(Reqs)
NextPair == NextWith(PairBodies, PairResponses)
SpecPair == InitPair /\ [][NextPair]_vars

----------------------------------------------------------------------------
(* Claims *)

Finalized(r) == status[r] \in {"ok200", "err502_no_text", "err500_finalize"}

\* C1 as stated: the model invocations of one request (responses.create and
\* every responses.submit_tool_outputs) never exceed the round budget of 4.
C1_InvocationsWithinRoundBudget ==
    \A r \in Reqs : invocations[r] <= MaxRounds

\* C1 amended: the budget bounds the rounds of tool use, so a request makes at
\* most 4 submit_tool_outputs calls after its responses.create: 5 invocations.
C1_InvocationsWithinBudgetPlusOne ==
    \A r \in Reqs : round[r] <= MaxRounds /\ invocations[r] <= MaxRounds + 1

C1_Witness ==
    \E r \in Reqs : pc[r] = "done" /\ Finalized(r) /\ invocations[r] = MaxRounds + 1

\* C2: while a round runs, the calls handled so far have one output each, in
\* order and under the call's id; and when submit_tool_outputs is about to be
\* called, every call item of the response has its output, unknown names too.
C2_RoundBarrier ==
    \A r \in Reqs :
        /\ pc[r] \in {"exec", "tool_wait", "submit"} =>
            /\ Len(tool_outputs[r]) = idx[r] - 1
            /\ Len(tool_outputs[r]) <= Len(tool_calls[r])
            /\ \A k \in 1..Len(tool_outputs[r]) :
                 tool_outputs[r][k].tool_call_id = tool_calls[r][k].id
        /\ pc[r] = "submit" =>
            /\ NumCallItems(resp[r].output) >= 1
            /\ Len(Submission(r).tool_outputs) = NumCallItems(resp[r].output)

C2_Witness ==
    \E r \in Reqs :
        /\ pc[r] = "submit"
        /\ Len(tool_outputs[r]) = 2
        /\ tool_outputs[r][1].status = "serper_error"
        /\ tool_outputs[r][2].status = "unknown tool"

\* C3 as stated: every tool call received in any response, the last of the
\* budget included, has had its ToolResult submitted when the request returns.
C3_EveryReceivedCallAnswered ==
    \A r \in Reqs : pc[r] = "done" /\ Finalized(r) => unanswered[r] = 0

\* C3 amended: the only calls without a submitted ToolResult are those of the
\* most recent response, every submission answers all of them, and the loop
\* finalizes with calls pending only when the 4 rounds are used up.
C3_OnlyLastResponsePending ==
    \A r \in Reqs :
        /\ pc[r] \in {"loop", "exec", "tool_wait", "submit", "finalize"} \/ Finalized(r) =>
              unanswered[r] = NumCallItems(resp[r].output)
        /\ pc[r] = "wait_submit" => unanswered[r] = 0
        /\ (pc[r] = "finalize" \/ Finalized(r)) /\ unanswered[r] > 0 =>
              round[r] = MaxRounds

C3_Witness ==
    \E r \in Reqs :
        pc[r] = "done" /\ status[r] = "ok200" /\ round[r] = MaxRounds /\ unanswered[r] = 2

\* C4: a failing tool call, whatever its name and arguments, never ends the
\* request: no request ends by an exception raised in the tool loop.
C4_ToolFailureNeverAborts ==
    \A r \in Reqs : status[r] # "err500_tool_loop"

\* C5: a model invocation that fails ends the request with the upstream error,
\* once: it is not retried, and from then on the request makes no model
\* invocation and runs no tool.
C5_FailedInvocationEndsRequest ==
    /\ [](\A r \in Reqs :
            /\ failures[r] <= 1
            /\ failures[r] = 1 =>
                 pc[r] = "done" /\ status[r] \in {"err502_openai", "err502_submit"})
    /\ [][\A r \in Reqs :
            failures[r] >= 1 =>
                /\ invocations'[r] = invocations[r]
                /\ ranTools'[r] = ranTools[r]
                /\ tool_outputs'[r] = tool_outputs[r]
                /\ status'[r] = status[r]]_vars

C5_Witness ==
    \E r \in Reqs :
        /\ status[r] = "err502_submit"
        /\ failures[r] = 1
        /\ round[r] = 1
        /\ ranTools[r] = {"web_search"}

\* C6: when the first response has no tool call item, the request goes from
\* that one invocation to finalize: no round, no tool, no submission.
C6_NoToolCallsOneInvocation ==
    \A r \in Reqs :
        firstEmpty[r] =>
            /\ invocations[r] = 1
            /\ round[r] = 0
            /\ ranTools[r] = {}
            /\ tool_outputs[r] = <<>>
            /\ pc[r] \in {"loop", "finalize", "done"}
            /\ pc[r] = "done" => Finalized(r)

C6_Witness ==
    \E r \in Reqs :
        /\ firstEmpty[r]
        /\ pc[r] = "done"
        /\ status[r] = "ok200"
        /\ Len(resp[r].output) = 2

\* reply of MatchResponse for the response r0: its text, or the dash.
ReplyFor(r0) == IF ExtractText(r0) # <<>> THEN ExtractText(r0) ELSE Dash

\* C7: when every response carries tool calls, the loop stops once the budget
\* is used up, the reply is the text of the last response received, and the
\* request ends with a success payload or with the terminal-empty-result error.
C7_BudgetExhaustedStillAnswers ==
    \A r \in Reqs :
        pc[r] = "done" /\ round[r] = MaxRounds /\ failures[r] = 0
        /\ NumCallItems(resp[r].output) > 0 =>
            /\ resp[r].id.seq = invocations[r]
            /\ status[r] \in {"ok200", "err502_no_text"}
            /\ status[r] = "ok200" => reply[r] = ReplyFor(resp[r])

\* C8: a response that returns listings returns no more of them than the
\* limit of the request, whatever the limit and the length of the array.
C8_ListingCountWithinLimit ==
    \A r \in Reqs :
        status[r] = "ok200" /\ properties[r] # <<>> =>
            Len(properties[r]) <= flat[r].limit

DoublyFailing(tok) == ~FullShape(ElemValue(tok)).ok /\ ~Projection(ElemValue(tok)).ok

Selected(r) == PySlice(ExtractProps(ExtractText(resp[r])), flat[r].limit)

RECURSIVE ListingsOfOthers(_)
ListingsOfOthers(sel) ==
    IF sel = <<>> THEN <<>>
    ELSE (IF DoublyFailing(Head(sel)) THEN <<>> ELSE <<ListingOf(Head(sel)).val>>)
         \o ListingsOfOthers(Tail(sel))

\* C9: an element that fails Listing(**p) and the projection too is dropped:
\* the request succeeds and returns the listings of the other elements.
C9_DoublyFailingElementDropped ==
    \A r \in Reqs :
        /\ pc[r] = "done"
        /\ Finalized(r)
        /\ \E k \in DOMAIN Selected(r) : DoublyFailing(Selected(r)[k])
        => /\ status[r] = "ok200"
           /\ properties[r] = ListingsOfOthers(Selected(r))

\* C10: a request ends with success or with one of four errors: configuration,
\* malformed request (here also a body that parses and does not validate),
\* upstream transport, terminal empty result; never with an error of a tool
\* execution or of the extraction.
C10_OnlyFourErrorConditions ==
    \A r \in Reqs :
        pc[r] = "done" =>
            status[r] \in {"ok200", "err500_config", "err400_json", "err500_validation",
                           "err502_openai", "err502_submit", "err502_no_text"}

\* The text the handler recovered from its last response.
FinalText(r) == ExtractText(resp[r])

\* C11: after the loop the request ends with the upstream error (502) exactly
\* when the recovered text is empty, and then no listing was extracted;
\* otherwise it ends with success and a reply that is not empty.
C11_NoTextErrorIffNothingRecovered ==
    \A r \in Reqs :
        pc[r] = "done" /\ Finalized(r) =>
            /\ status[r] = "err502_no_text" <=>
                  (FinalText(r) = <<>> /\ Selected(r) = <<>>)
            /\ status[r] # "err502_no_text" =>
                  status[r] = "ok200" /\ reply[r] # <<>>

\* The text has no "properties" array, or the matched array is no JSON.
NoUsableArray(text) ==
    MatchGroup(text) = <<>> \/ ~JsonLoadsArray(MatchGroup(text)).ok

\* C12: without a "properties" array that parses, the extraction yields no
\* listing and raises nothing; when the text is not empty the request succeeds
\* with the text as reply and no properties.
C12_NoArrayNoListings ==
    \A r \in Reqs :
        pc[r] = "done" /\ Finalized(r) /\ NoUsableArray(FinalText(r)) =>
            /\ status[r] # "err500_finalize"
            /\ properties[r] = <<>>
            /\ FinalText(r) # <<>> =>
                  status[r] = "ok200" /\ reply[r] = FinalText(r)

C12_Witness ==
    \E r \in Reqs :
        /\ status[r] = "ok200"
        /\ MatchGroup(FinalText(r)) # <<>>
        /\ ~JsonLoadsArray(MatchGroup(FinalText(r))).ok
        /\ reply[r] = FinalText(r)
        /\ properties[r] = <<>>

\* The names the loop dispatches to a tool (lines 292, 295).
IsKnownTool(name) == name \in {"web_search", "http_get"}

\* tc of the iteration the handler is at (or stopped at).
CurrentCall(r) == tool_calls[r][idx[r]]

\* C13: a call whose name is no tool gets, in one step that runs no tool and
\* leaves the request running, the output "unknown tool" under its own id; no
\* request is ever aborted at such a call, and the submission that follows the
\* round carries that output at the call's position.
C13_UnknownToolAnswered ==
    /\ [](\A r \in Reqs :
            /\ status[r] = "err500_tool_loop" => IsKnownTool(CurrentCall(r).name)
            /\ pc[r] = "submit" =>
                 \A k \in DOMAIN tool_calls[r] :
                    ~IsKnownTool(tool_calls[r][k].name) =>
                        Submission(r).tool_outputs[k] =
                            ToolOutput(tool_calls[r][k].id, tool_calls[r][k].name,
                                       "unknown tool", "", 0))
    /\ [][\A r \in Reqs :
            /\ pc[r] = "exec"
            /\ ~IsKnownTool(CurrentCall(r).name)
            /\ (pc'[r] # pc[r] \/ idx'[r] # idx[r])
            => /\ tool_outputs'[r] =
                    Append(tool_outputs[r],
                           ToolOutput(CurrentCall(r).id, CurrentCall(r).name,
                                      "unknown tool", "", 0))
               /\ ranTools'[r] = ranTools[r]
               /\ status'[r] = "pending"
               /\ pc'[r] \in {"exec", "submit"}]_vars

C13_Witness ==
    \E r \in Reqs :
        /\ pc[r] = "loop"
        /\ round[r] = 1
        /\ invocations[r] = 2
        /\ ranTools[r] = {}

\* C14: a call whose arguments are a string never fails the round: when the
\* string gives no usable mapping the call is dispatched with an empty one.
C14_StringArgumentsNeverFailRound ==
    \A r \in Reqs :
        status[r] = "err500_tool_loop" => CurrentCall(r).arguments \notin StrArgs

\* C15: without the credential no request makes a model invocation or runs
\* a tool; each ends at once with the server-misconfiguration error.
C15_MissingKeyFailsFast ==
    ~apiKey =>
        \A r \in Reqs :
            /\ invocations[r] = 0
            /\ ranTools[r] = {}
            /\ flat[r] = NoFlat
            /\ pc[r] \in {"off", "recv", "done"}
            /\ pc[r] = "done" => status[r] = "err500_config"

C15_Witness ==
    /\ ~apiKey
    /\ \E r \in Reqs : pc[r] = "done" /\ status[r] = "err500_config"

\* C16 as stated: the listings a successful request returns are deduplicated:
\* no two of them carry the same mls that is not null.
C16_NoDuplicateMls ==
    \A r \in Reqs :
        status[r] = "ok200" =>
            \A i, j \in DOMAIN properties[r] :
                i # j /\ properties[r][i].mls # Null =>
                    properties[r][i].mls # properties[r][j].mls

\* C16 amended: the returned listings are the selected elements of the
\* model's array, one listing per element and in its order, each with the mls
\* of its element: the list repeats an mls exactly where the array does.
C16_ListingsMirrorArray ==
    \A r \in Reqs :
        status[r] = "ok200" =>
            /\ Len(properties[r]) = Len(Selected(r))
            /\ \A k \in DOMAIN properties[r] :
                 properties[r][k].mls = ElemValue(Selected(r)[k]).mls

C16_Witness ==
    \E r \in Reqs :
        /\ status[r] = "ok200"
        /\ Len(properties[r]) = 2
        /\ properties[r][1].mls = "A"
        /\ properties[r][2].mls = "A]"

\* C17: extracting again from the returned listings, written back to text as
\* a "properties" array, gives the same listings, also when a string field
\* holds a bracket.  (Stated for the limits that are not negative.)
C17_ExtractionIdempotent ==
    \A r \in Reqs :
        status[r] = "ok200" /\ flat[r].limit >= 0 =>
            ExtractListings(DumpsProperties(properties[r]), flat[r].limit)
                = [raised |-> FALSE, out |-> properties[r]]

\* Position in output of its k-th tool call item.
KthCallPos(output, k) ==
    CHOOSE p \in DOMAIN output :
        /\ IsCallItem(output[p])
        /\ Cardinality({q \in 1..p : IsCallItem(output[q])}) = k

\* C18: what submit_tool_outputs is called with names the response the
\* handler received last, the one of its latest invocation, and holds one
\* output per tool call item of that response: the k-th output carries the
\* identifier of the k-th call item, and two outputs never the same one.
C18_CorrelationPreserved ==
    \A r \in Reqs :
        pc[r] = "submit" =>
            LET sub == Submission(r)
                out == resp[r].output
            IN  /\ sub.response_id = resp[r].id
                /\ sub.response_id = [req |-> r, seq |-> invocations[r]]
                /\ Len(sub.tool_outputs) = NumCallItems(out)
                /\ \A k \in DOMAIN sub.tool_outputs :
                     sub.tool_outputs[k].tool_call_id = out[KthCallPos(out, k)].id
                /\ \A i, j \in DOMAIN sub.tool_outputs :
                     i # j => sub.tool_outputs[i].tool_call_id
                                # sub.tool_outputs[j].tool_call_id

C18_Witness ==
    \E r \in Reqs :
        /\ pc[r] = "submit"
        /\ round[r] = 1
        /\ Len(resp[r].output) = 2
        /\ Len(tool_outputs[r]) = 1
        /\ tool_outputs[r][1].tool_call_id = [req |-> r, seq |-> 2, item |-> 2]

\* The model invocations a handler has made when it is at pc with rnd rounds
\* completed and status st: responses.create, then one submit_tool_outputs
\* per round, the one it waits for included.
InvocationsAt(p, rnd, st) ==
    IF p \in {"off", "recv", "body", "create"} THEN 0
    ELSE IF p = "done" /\ st \in {"err500_config", "err400_json", "err500_validation"}
    THEN 0
    ELSE IF p = "wait_submit" \/ (p = "done" /\ st = "err502_submit") THEN rnd + 2
    ELSE rnd + 1

\* The handler of r takes no part in the step.
Idle(r) == pc'[r] = pc[r] /\ idx'[r] = idx[r]

\* C19: with two requests under way, the response a handler holds is one the
\* API returned to it, its tool outputs answer calls of its own and, while
\* the round runs and at the submission, calls of that response, it submits
\* under that response's id, and its count of model invocations is the one
\* its own position gives; a step of the other request, also one taken while
\* the handler is suspended at an await, changes none of its response, tool
\* calls, tool outputs, rounds and invocations.
C19_RequestsIsolated ==
    /\ [](\A r \in Reqs :
            /\ resp[r].id.req \in {r, Null}
            /\ \A k \in DOMAIN tool_outputs[r] :
                 /\ tool_outputs[r][k].tool_call_id.req = r
                 /\ pc[r] \in {"exec", "tool_wait", "submit"} =>
                      tool_outputs[r][k].tool_call_id.seq = resp[r].id.seq
            /\ pc[r] = "submit" => Submission(r).response_id = [req |-> r, seq |-> invocations[r]]
            /\ invocations[r] = InvocationsAt(pc[r], round[r], status[r]))
    /\ [][\A r \in Reqs :
            Idle(r) =>
                /\ resp'[r] = resp[r]
                /\ tool_calls'[r] = tool_calls[r]
                /\ tool_outputs'[r] = tool_outputs[r]
                /\ round'[r] = round[r]
                /\ invocations'[r] = invocations[r]
                /\ status'[r] = status[r]]_vars

C19_Witness ==
    /\ pc["r1"] = "tool_wait" /\ round["r1"] = 1
    /\ pc["r2"] = "tool_wait" /\ round["r2"] = 0
    /\ resp["r1"].id # resp["r2"].id

\* C20: a request with allow_web = false gives the model no tool
\* specification and never runs web_search or http_get, whatever the
\* responses of the model hold.
C20_NoToolsWithoutAllowWeb ==
    \A r \in Reqs :
        pc[r] \notin {"off", "recv", "body"} /\ ~flat[r].allow_web =>
            /\ tools[r].none
            /\ ranTools[r] = {}

====
